---- MODULE Spec2Model ----
(***************************************************************************)
(* A model of fehler-go: the ErrorReporter (source registry, output        *)
(* format, the three console renderers and the snippet/underline renderer) *)
(* and the SARIF encoder.                                                  *)
(*                                                                         *)
(* Text is modelled as a sequence of tokens.  A token is a string that     *)
(* holds no newline, or the newline token itself; a Printf call yields the *)
(* tokens of its format string and arguments in order, strings.Repeat(s,n) *)
(* yields n tokens s.  An output line is the tokens written before its     *)
(* newline.  The ESC byte of the ANSI sequences is written \x1b.           *)
(***************************************************************************)
EXTENDS Integers, Sequences, FiniteSets, TLC

VARIABLES
    Sources,    \* ErrorReporter.Sources: file name -> registered content
    Format,     \* ErrorReporter.Format
    diag,       \* the caller's diagnostic: <<>> (none yet) or <<d>>
    out,        \* the complete lines the last call wrote to stdout
    partial,    \* tokens written after the last newline (only after a panic)
    panicked,   \* the process died in a run-time panic
    sarifIn,    \* the diagnostics last handed to EmitSarif
    sarifDoc,   \* <<>> or <<report>>: the document EmitSarif wrote
    sarifErr,   \* EmitSarif's returned error is non-nil
    prev,       \* <<>>, or <<the reporter, diagnostic and output before the last Report>>
    heap,       \* the Diagnostic objects the builders made: address -> value
    last        \* <<>>, or <<the last With* call: receiver, result, receiver's value before>>

vars == <<Sources, Format, diag, out, partial, panicked, sarifIn, sarifDoc, sarifErr,
          prev, heap, last>>

----------------------------------------------------------------------------
(* Bounds of the model. *)

MaxLine == 4      \* range lines are drawn from 1..MaxLine
MaxCol == 2       \* range columns are drawn from 1..MaxCol and around the nominal width
MaxSrcLen == 2    \* registered contents have at most MaxSrcLen tokens
MaxDiags == 2     \* EmitSarif is handed at most MaxDiags diagnostics
MaxObjects == 2   \* the builders make at most MaxObjects Diagnostic objects

----------------------------------------------------------------------------
(* Constants of the program. *)

colorReset == "\\x1b[0m"
colorRed == "\\x1b[31m"
colorYellow == "\\x1b[33m"
colorBlue == "\\x1b[34m"
colorMagenta == "\\x1b[35m"
colorCyan == "\\x1b[36m"
colorBold == "\\x1b[1m"
colorDim == "\\x1b[2m"

FormatFehler == 0
FormatGCC == 1
FormatMSVC == 2
OutputFormat == {FormatFehler, FormatGCC, FormatMSVC}

SeverityFatal == 0
SeverityError == 1
SeverityWarning == 2
SeverityNote == 3
SeverityTodo == 4
SeverityUnimplemented == 5
Severity == {SeverityFatal, SeverityError, SeverityWarning, SeverityNote,
             SeverityTodo, SeverityUnimplemented}

NominalWidth == 80   \* the literal 80 of printUnderline
LineNumWidth == 4    \* lineNumWidth, and the 4 of %4d

NL == "\n"
Nil == <<>>          \* a nil pointer; a set pointer is <<value>>

----------------------------------------------------------------------------
(* Position, SourceRange *)

Position(line, column) == [Line |-> line, Column |-> column]

NewSourceRangeSingle(file, line, column) ==
    [File |-> file, Start |-> Position(line, column), End |-> Position(line, column)]

NewSourceRangeSpan(file, startLine, startColumn, endLine, endColumn) ==
    [File |-> file, Start |-> Position(startLine, startColumn),
     End |-> Position(endLine, endColumn)]

IsMultiline(s) == s.Start.Line # s.End.Line

IsSingleChar(s) == s.Start.Line = s.End.Line /\ s.Start.Column = s.End.Column

\* as Length, but counting the columns between start and end
LengthOffByOne(s) ==
    IF IsMultiline(s) THEN 0
    ELSE IF s.End.Column >= s.Start.Column THEN s.End.Column - s.Start.Column
    ELSE 1

Length(s) ==
    IF IsMultiline(s) THEN 0
    ELSE IF s.End.Column >= s.Start.Column THEN s.End.Column - s.Start.Column + 1
    ELSE 1

----------------------------------------------------------------------------
(* Severity *)

Color(s) ==
    CASE s \in {SeverityFatal, SeverityError} -> colorRed
      [] s = SeverityWarning -> colorYellow
      [] s = SeverityNote -> colorBlue
      [] s = SeverityTodo -> colorMagenta
      [] s = SeverityUnimplemented -> colorCyan
      [] OTHER -> ""

Label(s) ==
    CASE s = SeverityFatal -> "fatal"
      [] s = SeverityError -> "error"
      [] s = SeverityWarning -> "warning"
      [] s = SeverityNote -> "note"
      [] s = SeverityTodo -> "todo"
      [] s = SeverityUnimplemented -> "unimplemented"
      [] OTHER -> "unknown"

----------------------------------------------------------------------------
(* Diagnostic: the optional fields are pointers, Nil or <<value>>. *)

Diagnostic(severity, message, range, help, code, url) ==
    [Severity |-> severity, Message |-> message, Range |-> range,
     Help |-> help, Code |-> code, Url |-> url]

----------------------------------------------------------------------------
(* Text helpers: strings.Repeat, strings.Split, %d and %4d. *)

Repeat(s, n) == [i \in 1..n |-> s]

RECURSIVE SplitFrom(_, _, _)
SplitFrom(source, i, cur) ==
    IF i > Len(source) THEN <<cur>>
    ELSE IF source[i] = NL THEN <<cur>> \o SplitFrom(source, i + 1, <<>>)
    ELSE SplitFrom(source, i + 1, Append(cur, source[i]))

\* strings.Split(source, "\n"): the lines, each a sequence of tokens
Split(source) == SplitFrom(source, 1, <<>>)

Itoa(n) == ToString(n)

RECURSIVE Digits(_)
Digits(n) == IF n < 10 THEN 1 ELSE 1 + Digits(n \div 10)

\* %4d of a non-negative integer
Pad4(n) ==
    Repeat(" ", IF Digits(n) < LineNumWidth THEN LineNumWidth - Digits(n) ELSE 0)
        \o <<Itoa(n)>>

----------------------------------------------------------------------------
(* Printing.  A run of Print calls is a list of items [s, n]: write s n     *)
(* times.  strings.Repeat panics on a negative count, before anything of   *)
(* that item is written; what the earlier items wrote stays written.       *)

Lit(s) == [s |-> s, n |-> 1]
Rep(s, n) == [s |-> s, n |-> n]

PrintsOk(items) == \A i \in 1..Len(items) : items[i].n >= 0

RECURSIVE Written(_, _)
Written(items, i) ==
    IF i > Len(items) \/ items[i].n < 0 THEN <<>>
    ELSE Repeat(items[i].s, items[i].n) \o Written(items, i + 1)

Line(kind, n, toks) == [kind |-> kind, n |-> n, toks |-> toks]

\* what a renderer did: the complete lines, the tokens after the last
\* newline, and whether it returned (ok) or panicked
Done(lines) == [lines |-> lines, partial |-> <<>>, ok |-> TRUE]
Died(lines, toks) == [lines |-> lines, partial |-> toks, ok |-> FALSE]

----------------------------------------------------------------------------
(* printUnderline *)

\* as UnderlineItems, but the last line of a multi-line range stops one column short
UnderlineItemsShortLast(r, lineNum, lineNumWidth, color) ==
    <<Lit("  "), Lit(color), Rep(" ", lineNumWidth + 1), Lit("  ")>>
    \o (IF IsMultiline(r)
        THEN IF lineNum = r.Start.Line
             THEN <<Rep(" ", r.Start.Column - 1), Lit("~"),
                    Rep("~", NominalWidth - r.Start.Column)>>
             ELSE IF lineNum = r.End.Line
             THEN <<Rep("~", r.End.Column - 1)>>
             ELSE IF lineNum > r.Start.Line /\ lineNum < r.End.Line
             THEN <<Rep("~", NominalWidth)>>
             ELSE <<>>
        ELSE <<Rep(" ", r.Start.Column - 1)>>
             \o (IF IsSingleChar(r) THEN <<Lit("^")>>
                 ELSE <<Rep("~", Length(r))>>))
    \o <<Lit(colorReset)>>

\* the Print calls of printUnderline, in order; the last is Println(colorReset)
UnderlineItems(r, lineNum, lineNumWidth, color) ==
    <<Lit("  "), Lit(color), Rep(" ", lineNumWidth + 1), Lit("  ")>>
    \o (IF IsMultiline(r)
        THEN IF lineNum = r.Start.Line
             THEN <<Rep(" ", r.Start.Column - 1), Lit("~"),
                    Rep("~", NominalWidth - r.Start.Column)>>
             ELSE IF lineNum = r.End.Line
             THEN <<Rep("~", r.End.Column)>>
             ELSE IF lineNum > r.Start.Line /\ lineNum < r.End.Line
             THEN <<Rep("~", NominalWidth)>>
             ELSE <<>>
        ELSE <<Rep(" ", r.Start.Column - 1)>>
             \o (IF IsSingleChar(r) THEN <<Lit("^")>>
                 ELSE <<Rep("~", Length(r))>>))
    \o <<Lit(colorReset)>>

printUnderline(r, lineNum, lineNumWidth, color) ==
    LET items == UnderlineItems(r, lineNum, lineNumWidth, color)
        toks == Written(items, 1)
    IN  IF PrintsOk(items)
        THEN Done(<<Line("underline", lineNum, toks)>>)
        ELSE Died(<<>>, toks)

----------------------------------------------------------------------------
(* printSourceSnippet *)

ContextStart(r) == IF r.Start.Line > 2 THEN r.Start.Line - 2 ELSE 1

ContextEnd(r, lines) ==
    LET e == IF IsMultiline(r) THEN r.End.Line + 2 ELSE r.Start.Line + 2
    IN  IF e > Len(lines) THEN Len(lines) ELSE e

IsErrorLine(r, currentLine) ==
    currentLine >= r.Start.Line /\ currentLine <= r.End.Line

ErrorLineToks(currentLine, line) ==
    <<"  ", colorRed, colorBold>> \o Pad4(currentLine) \o <<" |", colorReset, " ">> \o line

ContextLineToks(currentLine, line) ==
    <<"  ", colorDim>> \o Pad4(currentLine) \o <<" |", colorReset, " ">> \o line

\* the body of the for loop from currentLine on
RECURSIVE SnippetLoop(_, _, _, _, _)
SnippetLoop(r, color, lines, currentLine, contextEnd) ==
    IF currentLine > contextEnd THEN Done(<<>>)
    ELSE LET line == lines[currentLine]
         IN  IF IsErrorLine(r, currentLine)
             THEN LET src == Line("error", currentLine, ErrorLineToks(currentLine, line))
                      u == printUnderline(r, currentLine, LineNumWidth, color)
                  IN  IF ~u.ok THEN Died(<<src>>, u.partial)
                      ELSE LET rest == SnippetLoop(r, color, lines, currentLine + 1, contextEnd)
                           IN  [rest EXCEPT !.lines = <<src>> \o u.lines \o @]
             ELSE LET src == Line("context", currentLine, ContextLineToks(currentLine, line))
                      rest == SnippetLoop(r, color, lines, currentLine + 1, contextEnd)
                  IN  [rest EXCEPT !.lines = <<src>> \o @]

\* as printSourceSnippet, but without the ok check of the map lookup: a file
\* that was never registered reads as the empty text
printSourceSnippetNoOkCheck(r, color) ==
    LET lines == Split(IF r.File \in DOMAIN Sources THEN Sources[r.File] ELSE <<>>)
    IN  SnippetLoop(r, color, lines, ContextStart(r), ContextEnd(r, lines))

printSourceSnippet(r, color) ==
    IF r.File \notin DOMAIN Sources THEN Done(<<>>)
    ELSE LET lines == Split(Sources[r.File])
         IN  SnippetLoop(r, color, lines, ContextStart(r), ContextEnd(r, lines))

----------------------------------------------------------------------------
(* The style renderers. *)

HeaderToks(d) ==
    IF d.Code # Nil
    THEN <<Color(d.Severity), colorBold, Label(d.Severity), "[", d.Code[1], "]",
           colorReset, ": ", d.Message>>
    ELSE <<Color(d.Severity), colorBold, Label(d.Severity), colorReset, ": ", d.Message>>

LocationToks(r) ==
    <<"  ", colorCyan, colorBold, r.File, ":", Itoa(r.Start.Line), ":",
      Itoa(r.Start.Column), colorReset>>

HelpToks(d) == <<"  ", colorCyan, colorBold, "help", colorReset, ": ", d.Help[1]>>

SeeToks(d) == <<"  ", colorCyan, colorBold, "see", colorReset, ": ", d.Url[1]>>

\* the lines printFehler writes after the snippet
FehlerTail(d) ==
    (IF d.Help # Nil THEN <<Line("help", 0, HelpToks(d))>> ELSE <<>>)
    \o (IF d.Url # Nil THEN <<Line("see", 0, SeeToks(d))>> ELSE <<>>)
    \o <<Line("blank", 0, <<>>)>>

printFehler(d) ==
    LET header == <<Line("header", 0, HeaderToks(d))>>
    IN  IF d.Range = Nil THEN Done(header \o FehlerTail(d))
        ELSE LET r == d.Range[1]
                 location == <<Line("location", 0, LocationToks(r))>>
                 snippet == printSourceSnippet(r, Color(d.Severity))
             IN  IF ~snippet.ok
                 THEN Died(header \o location \o snippet.lines, snippet.partial)
                 ELSE Done(header \o location \o snippet.lines \o FehlerTail(d))

\* as printGcc, but showing the code when there is no range
printGccWithCode(d) ==
    LET color == Color(d.Severity)
    IN  IF d.Range # Nil
        THEN LET r == d.Range[1]
             IN  Done(<<Line("gcc", 0,
                    <<colorBold, r.File, ":", Itoa(r.Start.Line), ":",
                      Itoa(r.Start.Column), ": ", color, Label(d.Severity), ": ",
                      colorReset, colorBold, d.Message, colorReset>>)>>)
        ELSE Done(<<Line("gcc", 0,
                    <<colorBold, color, Label(d.Severity)>>
                    \o (IF d.Code # Nil THEN <<"[", d.Code[1], "]">> ELSE <<>>)
                    \o <<": ", colorReset, colorBold, d.Message, colorReset>>)>>)

printGcc(d) ==
    LET color == Color(d.Severity)
    IN  IF d.Range # Nil
        THEN LET r == d.Range[1]
             IN  Done(<<Line("gcc", 0,
                    <<colorBold, r.File, ":", Itoa(r.Start.Line), ":",
                      Itoa(r.Start.Column), ": ", color, Label(d.Severity), ": ",
                      colorReset, colorBold, d.Message, colorReset>>)>>)
        ELSE Done(<<Line("gcc", 0,
                    <<colorBold, color, Label(d.Severity), ": ", colorReset,
                      colorBold, d.Message, colorReset>>)>>)

\* as printMsvc, but showing the code placeholder without a range too
printMsvcCodeAlways(d) ==
    LET code == IF d.Code # Nil THEN d.Code[1] ELSE "unknown"
    IN  IF d.Range # Nil
        THEN LET r == d.Range[1]
             IN  Done(<<Line("msvc", 0,
                    <<r.File, "(", Itoa(r.Start.Line), ", ", Itoa(r.Start.Column),
                      "): ", Label(d.Severity), " ", code, ": ", d.Message>>)>>)
        ELSE Done(<<Line("msvc", 0, <<Label(d.Severity), " ", code, ": ", d.Message>>)>>)

printMsvc(d) ==
    IF d.Range # Nil
    THEN LET code == IF d.Code # Nil THEN d.Code[1] ELSE "unknown"
             r == d.Range[1]
         IN  Done(<<Line("msvc", 0,
                <<r.File, "(", Itoa(r.Start.Line), ", ", Itoa(r.Start.Column),
                  "): ", Label(d.Severity), " ", code, ": ", d.Message>>)>>)
    ELSE Done(<<Line("msvc", 0, <<Label(d.Severity), ": ", d.Message>>)>>)

\* what Report(d) does under the reporter's format; an unknown format
\* prints nothing
ReportResult(d) ==
    CASE Format = FormatFehler -> printFehler(d)
      [] Format = FormatGCC -> printGcc(d)
      [] Format = FormatMSVC -> printMsvc(d)
      [] OTHER -> Done(<<>>)

----------------------------------------------------------------------------
(* The SARIF encoder. *)

sarifVersion == "2.1.0"
sarifSchema == "https://json.schemastore.org/sarif-2.1.0.json"

\* as sarifLevel, but Todo and Unimplemented reported as notes
sarifLevelTodoAsNote(sev) ==
    CASE sev \in {SeverityFatal, SeverityError} -> "error"
      [] sev = SeverityWarning -> "warning"
      [] sev \in {SeverityNote, SeverityTodo, SeverityUnimplemented} -> "note"
      [] OTHER -> "none"

sarifLevel(sev) ==
    CASE sev \in {SeverityFatal, SeverityError} -> "error"
      [] sev = SeverityWarning -> "warning"
      [] sev = SeverityNote -> "note"
      [] sev \in {SeverityTodo, SeverityUnimplemented} -> "none"
      [] OTHER -> "none"

SarifRule(d) ==
    [id |-> d.Code[1],
     shortDescription |-> [text |-> d.Message],
     defaultConfiguration |-> <<[level |-> sarifLevel(d.Severity)]>>,
     helpUri |-> IF d.Url # Nil THEN d.Url[1] ELSE ""]

\* as RuleMapFrom, but a later diagnostic with the same code overwrites the rule
RECURSIVE RuleMapLastWins(_, _, _)
RuleMapLastWins(diagnostics, i, ruleMap) ==
    IF i > Len(diagnostics) THEN ruleMap
    ELSE LET d == diagnostics[i]
         IN  IF d.Code # Nil
             THEN RuleMapLastWins(diagnostics, i + 1,
                     [c \in DOMAIN ruleMap \cup {d.Code[1]} |->
                         IF c = d.Code[1] THEN SarifRule(d) ELSE ruleMap[c]])
             ELSE RuleMapLastWins(diagnostics, i + 1, ruleMap)

\* the first loop of EmitSarif from diagnostics[i] on: ruleMap, code -> rule
RECURSIVE RuleMapFrom(_, _, _)
RuleMapFrom(diagnostics, i, ruleMap) ==
    IF i > Len(diagnostics) THEN ruleMap
    ELSE LET d == diagnostics[i]
         IN  IF d.Code # Nil /\ d.Code[1] \notin DOMAIN ruleMap
             THEN RuleMapFrom(diagnostics, i + 1,
                     [c \in DOMAIN ruleMap \cup {d.Code[1]} |->
                         IF c = d.Code[1] THEN SarifRule(d) ELSE ruleMap[c]])
             ELSE RuleMapFrom(diagnostics, i + 1, ruleMap)

\* the orders in which `for _, r := range ruleMap` may visit the map
RuleOrders(ruleMap) ==
    {[i \in 1..Cardinality(DOMAIN ruleMap) |-> ruleMap[q[i]]] :
        q \in {p \in [1..Cardinality(DOMAIN ruleMap) -> DOMAIN ruleMap] :
                  \A i, j \in DOMAIN p : i # j => p[i] # p[j]}}

SarifResult(d) ==
    [message |-> [text |-> d.Message],
     level |-> sarifLevel(d.Severity),
     kind |-> "fail",
     ruleId |-> IF d.Code # Nil THEN d.Code ELSE Nil,
     locations |->
        IF d.Range # Nil
        THEN <<[physicalLocation |->
                  [artifactLocation |-> [uri |-> d.Range[1].File],
                   region |-> [startLine |-> d.Range[1].Start.Line,
                               startColumn |-> d.Range[1].Start.Column,
                               endLine |-> d.Range[1].End.Line,
                               endColumn |-> d.Range[1].End.Column]]]>>
        ELSE <<>>]

SarifResults(diagnostics) == [i \in 1..Len(diagnostics) |-> SarifResult(diagnostics[i])]

\* the document; a field JSON omits when empty reads back as empty
SarifReport(rules, results) ==
    [version |-> sarifVersion,
     schema |-> sarifSchema,
     runs |-> <<[tool |-> [driver |-> [name |-> "fehler",
                                       version |-> "0.5.0",
                                       informationUri |-> "https://github.com/ciathefed/fehler",
                                       rules |-> rules]],
                 results |-> results]>>]

----------------------------------------------------------------------------
(* The inputs the callers hand in. *)

Files == {"example.go", "missing.go"}
SourceFiles == {"example.go"}     \* the file names AddSource is called with

RECURSIVE SeqsUpTo(_, _)
SeqsUpTo(S, n) ==
    IF n = 0 THEN {<<>>}
    ELSE LET shorter == SeqsUpTo(S, n - 1)
         IN  shorter \cup {Append(q, x) : q \in shorter, x \in S}

ExampleSource ==
    <<"package main", NL, NL, "func main() {", NL, "    x := 42", NL,
      "    y := x + \"hello\" // Error here!", NL, "    println(y)", NL, "}">>

Contents == SeqsUpTo({"x", NL}, MaxSrcLen) \cup {ExampleSource}

Lines == 1..MaxLine
Columns == (1..MaxCol) \cup {NominalWidth, NominalWidth + 1}

ExampleMessage == "type mismatch: cannot add int and string"
ExampleRange == NewSourceRangeSpan("example.go", 5, 14, 5, 20)
ExampleDiagnostic ==
    Diagnostic(SeverityError, ExampleMessage, <<ExampleRange>>,
               <<"consider converting the string using strconv.Itoa or similar">>,
               <<"E0001">>, <<"https://docs.example.org/errors/E0001">>)

\* every range over the registered file, on diagnostics with no extras
SnippetRanges ==
    {NewSourceRangeSpan("example.go", sl, sc, el, ec) :
        sl \in Lines, sc \in Columns, el \in Lines, ec \in Columns}

SnippetDiagnostics ==
    {Diagnostic(sev, ExampleMessage, <<r>>, Nil, Nil, Nil) :
        sev \in Severity, r \in SnippetRanges}
    \cup {ExampleDiagnostic}

\* every combination of optional fields, over a few ranges
StyleRanges ==
    {NewSourceRangeSpan(f, sl, sc, el, 1) :
        f \in Files, sl \in 1..2, sc \in {1, NominalWidth + 1}, el \in 1..2}

StyleDiagnostics ==
    {Diagnostic(sev, ExampleMessage, range, help, code, url) :
        sev \in Severity,
        range \in {Nil} \cup {<<r>> : r \in StyleRanges},
        help \in {Nil, <<"consider converting">>},
        code \in {Nil, <<"E0001">>},
        url \in {Nil, <<"https://docs.example.org/errors/E0001">>}}
    \cup {ExampleDiagnostic}

----------------------------------------------------------------------------
(* The operations. *)

TypeOK ==
    /\ DOMAIN Sources \subseteq Files
    /\ Format \in OutputFormat
    /\ panicked \in BOOLEAN
    /\ sarifErr \in BOOLEAN

Init ==
    /\ Sources = [f \in {} |-> <<>>]
    /\ Format = FormatFehler
    /\ diag = Nil
    /\ out = <<>>
    /\ partial = <<>>
    /\ panicked = FALSE
    /\ sarifIn = <<>>
    /\ sarifDoc = Nil
    /\ sarifErr = FALSE
    /\ prev = Nil
    /\ heap = <<>>
    /\ last = Nil

AddSource(filename, content) ==
    /\ ~panicked
    /\ Sources' = [f \in DOMAIN Sources \cup {filename} |->
                      IF f = filename THEN content ELSE Sources[f]]
    /\ out' = <<>>
    /\ prev' = Nil
    /\ UNCHANGED <<Format, diag, partial, panicked, sarifIn, sarifDoc, sarifErr, heap, last>>

WithFormat(format) ==
    /\ ~panicked
    /\ Format' = format
    /\ out' = <<>>
    /\ prev' = Nil
    /\ UNCHANGED <<Sources, diag, partial, panicked, sarifIn, sarifDoc, sarifErr, heap, last>>

\* the caller builds its diagnostic
NewDiagnostic(d) ==
    /\ ~panicked
    /\ diag = Nil
    /\ diag' = <<d>>
    /\ out' = <<>>
    /\ prev' = Nil
    /\ UNCHANGED <<Sources, Format, partial, panicked, sarifIn, sarifDoc, sarifErr, heap, last>>

\* what a Report can read, and what the call before it wrote
Snapshot ==
    [Sources |-> Sources, Format |-> Format, diag |-> diag,
     out |-> out, partial |-> partial]

\* as Report, but leaving the reporter in its default format
ReportResetsFormat ==
    /\ ~panicked
    /\ diag # Nil
    /\ LET res == ReportResult(diag[1])
       IN  /\ out' = res.lines
           /\ partial' = res.partial
           /\ panicked' = ~res.ok
    /\ Format' = FormatFehler
    /\ prev' = <<Snapshot>>
    /\ UNCHANGED <<Sources, diag, sarifIn, sarifDoc, sarifErr, heap, last>>

Report ==
    /\ ~panicked
    /\ diag # Nil
    /\ LET res == ReportResult(diag[1])
       IN  /\ out' = res.lines
           /\ partial' = res.partial
           /\ panicked' = ~res.ok
    /\ prev' = <<Snapshot>>
    /\ UNCHANGED <<Sources, Format, diag, sarifIn, sarifDoc, sarifErr, heap, last>>

AddSourceStep == \E f \in SourceFiles, c \in Contents : AddSource(f, c)
WithFormatStep == \E f \in OutputFormat : WithFormat(f)
NewStyleDiagnostic == \E d \in StyleDiagnostics : NewDiagnostic(d)
NewSnippetDiagnostic == \E d \in SnippetDiagnostics : NewDiagnostic(d)

\* every style, every combination of optional fields
Next == AddSourceStep \/ WithFormatStep \/ NewStyleDiagnostic \/ Report
Spec == Init /\ [][Next]_vars

\* the verbose style, every range
NextSnippet == AddSourceStep \/ NewSnippetDiagnostic \/ Report
SpecSnippet == Init /\ [][NextSnippet]_vars

\* EmitSarif(diagnostics, w): `rules` is the order the map was visited in,
\* `written` whether w accepted the encoded document
EmitSarif(diagnostics, rules, written) ==
    /\ ~panicked
    /\ rules \in RuleOrders(RuleMapFrom(diagnostics, 1, [c \in {} |-> <<>>]))
    /\ sarifDoc' = IF written
                   THEN <<SarifReport(rules, SarifResults(diagnostics))>>
                   ELSE Nil
    /\ sarifErr' = ~written
    /\ UNCHANGED <<Sources, Format, diag, out, partial, panicked, sarifIn, prev, heap, last>>

\* the diagnostics handed to EmitSarif
SarifCodes == {"E001", "E002"}
SarifRange == NewSourceRangeSingle("main.go", 1, 2)

SarifDiagnostics ==
    {Diagnostic(sev, "invalid token", Nil, Nil, code, Nil) :
        sev \in Severity, code \in {Nil} \cup {<<c>> : c \in SarifCodes}}
    \cup
    {Diagnostic(sev, "unused variable", <<SarifRange>>, Nil, code,
                <<"https://docs.example.org/errors">>) :
        sev \in Severity, code \in {Nil} \cup {<<c>> : c \in SarifCodes}}

InitSarif ==
    /\ Sources = [f \in {} |-> <<>>]
    /\ Format = FormatFehler
    /\ diag = Nil
    /\ out = <<>>
    /\ partial = <<>>
    /\ panicked = FALSE
    /\ sarifIn \in SeqsUpTo(SarifDiagnostics, MaxDiags)
    /\ sarifDoc = Nil
    /\ sarifErr = FALSE
    /\ prev = Nil
    /\ heap = <<>>
    /\ last = Nil

EmitSarifStep ==
    \E written \in BOOLEAN :
        \E rules \in RuleOrders(RuleMapFrom(sarifIn, 1, [c \in {} |-> <<>>])) :
            EmitSarif(sarifIn, rules, written)

NextSarif == EmitSarifStep
SpecSarif == InitSarif /\ [][NextSarif]_vars

----------------------------------------------------------------------------
(* The builders of Diagnostic.  A *Diagnostic is an address of the heap.    *)
(* Each With* method assigns the field through its receiver and returns    *)
(* the receiver.                                                           *)

BuilderUnchanged ==
    UNCHANGED <<Sources, Format, diag, out, partial, panicked,
                sarifIn, sarifDoc, sarifErr, prev>>

\* the record of a With* call on receiver p that returned ret
Call(method, p, ret, field, value) ==
    <<[method |-> method, recv |-> p, ret |-> ret, field |-> field,
       value |-> value, before |-> heap[p]]>>

\* NewDiagnostic(severity, message): a fresh object, its address returned
NewDiagnosticObject(severity, message) ==
    /\ Len(heap) < MaxObjects
    /\ heap' = Append(heap, Diagnostic(severity, message, Nil, Nil, Nil, Nil))
    /\ last' = Nil
    /\ BuilderUnchanged

WithRange(p, r) ==
    /\ p \in DOMAIN heap
    /\ heap' = [heap EXCEPT ![p].Range = <<r>>]
    /\ last' = Call("WithRange", p, p, "Range", <<r>>)
    /\ BuilderUnchanged

WithLocation(p, file, line, column) ==
    /\ p \in DOMAIN heap
    /\ LET r == NewSourceRangeSingle(file, line, column)
       IN  /\ heap' = [heap EXCEPT ![p].Range = <<r>>]
           /\ last' = Call("WithLocation", p, p, "Range", <<r>>)
    /\ BuilderUnchanged

WithHelp(p, help) ==
    /\ p \in DOMAIN heap
    /\ heap' = [heap EXCEPT ![p].Help = <<help>>]
    /\ last' = Call("WithHelp", p, p, "Help", <<help>>)
    /\ BuilderUnchanged

WithCode(p, code) ==
    /\ p \in DOMAIN heap
    /\ heap' = [heap EXCEPT ![p].Code = <<code>>]
    /\ last' = Call("WithCode", p, p, "Code", <<code>>)
    /\ BuilderUnchanged

WithUrl(p, url) ==
    /\ p \in DOMAIN heap
    /\ heap' = [heap EXCEPT ![p].Url = <<url>>]
    /\ last' = Call("WithUrl", p, p, "Url", <<url>>)
    /\ BuilderUnchanged

NewDiagnosticStep == NewDiagnosticObject(SeverityError, "test error")
WithRangeStep ==
    \E p \in DOMAIN heap : WithRange(p, NewSourceRangeSpan("example.go", 42, 10, 42, 20))
WithLocationStep == \E p \in DOMAIN heap : WithLocation(p, "test.go", 15, 8)
WithHelpStep == \E p \in DOMAIN heap : WithHelp(p, "consider converting")
WithCodeStep == \E p \in DOMAIN heap : WithCode(p, "E001")
WithUrlStep == \E p \in DOMAIN heap : WithUrl(p, "https://docs.example.org/errors/E001")

NextBuilder ==
    \/ NewDiagnosticStep
    \/ WithRangeStep
    \/ WithLocationStep
    \/ WithHelpStep
    \/ WithCodeStep
    \/ WithUrlStep
SpecBuilder == Init /\ [][NextBuilder]_vars

----------------------------------------------------------------------------
(* Reading the output back. *)

AnsiCodes == {colorReset, colorRed, colorYellow, colorBlue, colorMagenta,
              colorCyan, colorBold, colorDim}

\* the tokens of a line that are no ANSI styling sequence
Visible(toks) == SelectSeq(toks, LAMBDA t : t \notin AnsiCodes)

RECURSIVE BytesFrom(_, _)
BytesFrom(toks, i) == IF i > Len(toks) THEN "" ELSE toks[i] \o BytesFrom(toks, i + 1)

\* the bytes of a line, without its newline
Bytes(toks) == BytesFrom(toks, 1)

\* the last call was a Report (every Report writes a header or a single line)
Reported == out # <<>>

D == diag[1]
R == D.Range[1]

VerboseReported == Reported /\ Format = FormatFehler
SnippetReported == VerboseReported /\ D.Range # Nil /\ R.File \in DOMAIN Sources

\* N: the number of newline-separated segments of the registered text
NumLines(content) == 1 + Cardinality({i \in 1..Len(content) : content[i] = NL})

IsSourceLine(l) == l.kind \in {"error", "context"}
IsSnippetLine(l) == l.kind \in {"error", "context", "underline"}

\* the printed source lines, in output order
PrintedSourceLines == SelectSeq(out, IsSourceLine)

Max(a, b) == IF a >= b THEN a ELSE b
Min(a, b) == IF a <= b THEN a ELSE b

WindowFirst == Max(1, R.Start.Line - 2)
WindowLast ==
    Min(NumLines(Sources[R.File]),
        (IF R.Start.Line # R.End.Line THEN R.End.Line ELSE R.Start.Line) + 2)

\* the marker part of an underline line: what follows the gutter
\* (2 spaces, colour, lineNumWidth+1 spaces, 2 spaces) up to the colour reset
GutterLen == 2 + (LineNumWidth + 1) + 1
Marker(l) == SubSeq(l.toks, GutterLen + 1, Len(l.toks) - 1)

\* m is exactly `spaces` blanks followed by `count` tokens ch
IsMarker(m, spaces, ch, count) ==
    /\ Len(m) = spaces + count
    /\ \A i \in 1..Len(m) : m[i] = (IF i <= spaces THEN " " ELSE ch)

\* the line after out[i] is an underline line and the one after that is not
OneUnderlineAfter(i) ==
    /\ i + 1 <= Len(out)
    /\ out[i + 1].kind = "underline"
    /\ out[i + 1].n = out[i].n
    /\ (i + 2 <= Len(out) => out[i + 2].kind # "underline")

NoUnderlineAfter(i) == i + 1 <= Len(out) => out[i + 1].kind # "underline"

----------------------------------------------------------------------------
(* The claims. *)

\* C1: the verbose snippet prints exactly the source lines numbered
\* max(1, start.line - 2) .. min(N, L + 2), in increasing order, no gaps,
\* L = end.line for a multi-line range and start.line otherwise.
C1_ContextWindow ==
    SnippetReported =>
        LET p == PrintedSourceLines
        IN  /\ Len(p) = Max(0, WindowLast - WindowFirst + 1)
            /\ \A i \in 1..Len(p) :
                  /\ p[i].n = WindowFirst + i - 1
                  /\ p[i].n \in 1..NumLines(Sources[R.File])

\* C1 holds of every render that returns
C1_ContextWindowUnlessPanic == panicked \/ C1_ContextWindow

\* C2: exactly one underline line immediately follows each printed source
\* line n with start.line <= n <= end.line, and none follows any other
\* printed source line.
C2_UnderlineAfterTouchedLines ==
    SnippetReported =>
        \A i \in 1..Len(out) :
            IsSourceLine(out[i]) =>
                IF R.Start.Line <= out[i].n /\ out[i].n <= R.End.Line
                THEN OneUnderlineAfter(i)
                ELSE NoUnderlineAfter(i)

C2_UnlessPanic == panicked \/ C2_UnderlineAfterTouchedLines

\* C3: for a single-line range the marker is start.column - 1 spaces, then
\* one caret when start = end, else K tildes, K = end.column - start.column + 1
\* when end.column >= start.column and K = 1 otherwise.
C3_SingleLineMarker ==
    (SnippetReported /\ R.Start.Line = R.End.Line) =>
        \A i \in 1..Len(out) :
            (out[i].kind = "error" /\ out[i].n = R.Start.Line) =>
                /\ OneUnderlineAfter(i)
                /\ IF R.Start = R.End
                   THEN IsMarker(Marker(out[i + 1]), R.Start.Column - 1, "^", 1)
                   ELSE IsMarker(Marker(out[i + 1]), R.Start.Column - 1, "~",
                                 IF R.End.Column >= R.Start.Column
                                 THEN R.End.Column - R.Start.Column + 1
                                 ELSE 1)

\* the example of the claim: columns 14..20 give 7 tildes from column 14
C3_Witness ==
    /\ SnippetReported
    /\ D = ExampleDiagnostic
    /\ \E i \in 1..Len(out) :
          /\ out[i].kind = "underline"
          /\ out[i].n = 5
          /\ IsMarker(Marker(out[i]), 13, "~", 7)

\* C4: under the first line of a multi-line range the marker is
\* start.column - 1 spaces followed by 81 - start.column tildes, 80 in all.
C4_FirstLineMarker ==
    (SnippetReported /\ R.Start.Line # R.End.Line) =>
        \A i \in 1..Len(out) :
            (out[i].kind = "error" /\ out[i].n = R.Start.Line) =>
                /\ OneUnderlineAfter(i)
                /\ IsMarker(Marker(out[i + 1]), R.Start.Column - 1, "~",
                            NominalWidth + 1 - R.Start.Column)
                /\ Len(Marker(out[i + 1])) = NominalWidth

C4_UnlessPanic == panicked \/ C4_FirstLineMarker

\* C5: for a multi-line range the underline under every line strictly
\* between start.line and end.line is exactly 80 tildes with no leading
\* space, whatever the line's length, and the underline under the last line
\* is exactly end.column tildes with no leading space.
C5_InnerAndLastLineMarker ==
    (SnippetReported /\ R.Start.Line # R.End.Line) =>
        \A i \in 1..Len(out) :
            /\ (out[i].kind = "error" /\ R.Start.Line < out[i].n /\ out[i].n < R.End.Line) =>
                  /\ OneUnderlineAfter(i)
                  /\ IsMarker(Marker(out[i + 1]), 0, "~", NominalWidth)
            /\ (out[i].kind = "error" /\ out[i].n = R.End.Line) =>
                  /\ OneUnderlineAfter(i)
                  /\ IsMarker(Marker(out[i + 1]), 0, "~", R.End.Column)

\* a range over lines 1..3 of a three-line text: an inner and a last underline
C5_Witness ==
    /\ SnippetReported
    /\ R.Start.Line = 1 /\ R.End.Line = 3 /\ R.End.Column = 2
    /\ \E i, j \in 1..Len(out) :
          /\ out[i].kind = "underline" /\ out[i].n = 2
          /\ out[j].kind = "underline" /\ out[j].n = 3
          /\ Len(Marker(out[i])) = NominalWidth
          /\ Len(Marker(out[j])) = 2

\* C6: for every severity, each source line the range touches is rendered in
\* the severity's colour (the colour of its underline) with its line number
\* padded to width 4; the other lines are rendered dimmed.
C6_TouchedLinesInSeverityColour ==
    SnippetReported =>
        \A i \in 1..Len(out) :
            /\ out[i].kind = "error" =>
                  /\ out[i].toks[2] = Color(D.Severity)
                  /\ SubSeq(out[i].toks, 4, 3 + LineNumWidth)
                        = Repeat(" ", LineNumWidth - 1) \o <<ToString(out[i].n)>>
                  /\ (i + 1 <= Len(out) /\ out[i + 1].kind = "underline")
                        => out[i + 1].toks[2] = out[i].toks[2]
            /\ out[i].kind = "context" =>
                  /\ out[i].toks[2] = colorDim
                  /\ SubSeq(out[i].toks, 3, 2 + LineNumWidth)
                        = Repeat(" ", LineNumWidth - 1) \o <<ToString(out[i].n)>>

\* C6 for the severities whose colour is red
C6_ForRedSeverities ==
    (SnippetReported /\ D.Severity \in {SeverityFatal, SeverityError})
        => C6_TouchedLinesInSeverityColour

----------------------------------------------------------------------------
(* The style renderers' claims. *)

\* the text of a line as a reader sees it: styling sequences and the
\* two-space indent of the verbose style's secondary lines left out
Unindent(v) == IF v # <<>> /\ v[1] = "  " THEN Tail(v) ELSE v
Text(l) == Bytes(Unindent(Visible(l.toks)))

Kinds(ls) == [i \in 1..Len(ls) |-> ls[i].kind]

\* the lines of a verbose report that are not the snippet's
NonSnippetLines == SelectSeq(out, LAMBDA l : ~IsSnippetLine(l))

PositionText(r, open, sep, close) ==
    r.File \o open \o ToString(r.Start.Line) \o sep \o ToString(r.Start.Column) \o close

\* C7: a verbose Report emits, in this order: the header
\* <label>[<code>]: <message> ([<code>] exactly when there is a code); exactly
\* when a range is present the location line <file>:<line>:<column> and then
\* the snippet; a help line exactly when help is present; a reference line
\* exactly when a url is present; always one blank line last.
C7_VerboseOrder ==
    VerboseReported =>
        /\ Kinds(NonSnippetLines)
              = <<"header">>
                \o (IF D.Range # Nil THEN <<"location">> ELSE <<>>)
                \o (IF D.Help # Nil THEN <<"help">> ELSE <<>>)
                \o (IF D.Url # Nil THEN <<"see">> ELSE <<>>)
                \o <<"blank">>
        /\ Text(out[1])
              = Label(D.Severity)
                \o (IF D.Code # Nil THEN "[" \o D.Code[1] \o "]" ELSE "")
                \o ": " \o D.Message
        /\ D.Range # Nil => Text(out[2]) = PositionText(R, ":", ":", "")
        /\ \A i \in 1..Len(out) :
              /\ IsSnippetLine(out[i]) =>
                    /\ D.Range # Nil
                    /\ \A j \in 3..i : IsSnippetLine(out[j])
              /\ out[i].kind = "help" => Text(out[i]) = "help: " \o D.Help[1]
              /\ out[i].kind = "see" => Text(out[i]) = "see: " \o D.Url[1]
              /\ out[i].kind = "blank" => out[i].toks = <<>>
        /\ out[Len(out)].kind = "blank"

C7_UnlessPanic == panicked \/ C7_VerboseOrder

GccText ==
    IF D.Range # Nil
    THEN PositionText(R, ":", ":", ": ") \o Label(D.Severity) \o ": " \o D.Message
    ELSE Label(D.Severity) \o ": " \o D.Message

ExampleGccText == "example.go:5:14: error: type mismatch: cannot add int and string"

ExampleMsvcText ==
    "example.go(5, 14): error E0001: type mismatch: cannot add int and string"

----------------------------------------------------------------------------
(* The SARIF encoder's claims. *)

SarifRules == sarifDoc[1].runs[1].tool.driver.rules

\* the codes the input diagnostics carry
CodesCarried == {sarifIn[i].Code[1] : i \in {j \in 1..Len(sarifIn) : sarifIn[j].Code # Nil}}

\* the first input diagnostic that carries code c
FirstWith(c) ==
    sarifIn[CHOOSE i \in 1..Len(sarifIn) :
                /\ sarifIn[i].Code = <<c>>
                /\ \A j \in 1..(i - 1) : sarifIn[j].Code # <<c>>]

\* C10: the rule list holds exactly one rule descriptor for each distinct
\* code some diagnostic carries and none besides; a rule's description text,
\* level and help URI are those of the first diagnostic, in input order, that
\* carries the code.
C10_RulesFirstSeenWins ==
    sarifDoc # Nil =>
        /\ \A c \in CodesCarried :
              Cardinality({k \in 1..Len(SarifRules) : SarifRules[k].id = c}) = 1
        /\ \A k \in 1..Len(SarifRules) :
              /\ SarifRules[k].id \in CodesCarried
              /\ LET first == FirstWith(SarifRules[k].id)
                 IN  /\ SarifRules[k].shortDescription.text = first.Message
                     /\ SarifRules[k].defaultConfiguration
                           = <<[level |-> sarifLevel(first.Severity)]>>
                     /\ SarifRules[k].helpUri
                           = (IF first.Url # Nil THEN first.Url[1] ELSE "")

\* two diagnostics share a code and differ in message, level and url
C10_Witness ==
    /\ sarifDoc # Nil
    /\ Len(sarifIn) = 2
    /\ sarifIn[1].Code = <<"E001">> /\ sarifIn[2].Code = <<"E001">>
    /\ sarifIn[1].Message # sarifIn[2].Message
    /\ sarifLevel(sarifIn[1].Severity) # sarifLevel(sarifIn[2].Severity)
    /\ Len(SarifRules) = 1
    /\ SarifRules[1].shortDescription.text = sarifIn[1].Message

SarifResultList == sarifDoc[1].runs[1].results

\* the level the claim gives each severity
ClaimedLevel(sev) ==
    CASE sev = SeverityFatal -> "error"
      [] sev = SeverityError -> "error"
      [] sev = SeverityWarning -> "warning"
      [] sev = SeverityNote -> "note"
      [] sev = SeverityTodo -> "none"
      [] sev = SeverityUnimplemented -> "none"

\* C11: the results list has one entry per input diagnostic, in input order:
\* entry i carries diagnostic i's message, its level (Fatal, Error -> error,
\* Warning -> warning, Note -> note, Todo, Unimplemented -> none), a ruleId
\* equal to its code exactly when it has a code, and exactly one location
\* copied from its range when it has a range, none otherwise.
C11_ResultsMirrorInput ==
    sarifDoc # Nil =>
        /\ Len(SarifResultList) = Len(sarifIn)
        /\ \A i \in 1..Len(sarifIn) :
              LET d == sarifIn[i]
                  res == SarifResultList[i]
              IN  /\ res.message.text = d.Message
                  /\ res.level = ClaimedLevel(d.Severity)
                  /\ res.ruleId = d.Code
                  /\ IF d.Range = Nil THEN res.locations = <<>>
                     ELSE /\ Len(res.locations) = 1
                          /\ LET loc == res.locations[1].physicalLocation
                             IN  /\ loc.artifactLocation.uri = d.Range[1].File
                                 /\ loc.region.startLine = d.Range[1].Start.Line
                                 /\ loc.region.startColumn = d.Range[1].Start.Column
                                 /\ loc.region.endLine = d.Range[1].End.Line
                                 /\ loc.region.endColumn = d.Range[1].End.Column

\* a Todo diagnostic with code and range, then a Warning with neither
C11_Witness ==
    /\ sarifDoc # Nil
    /\ Len(sarifIn) = 2
    /\ sarifIn[1].Severity = SeverityTodo
    /\ sarifIn[1].Code # Nil /\ sarifIn[1].Range # Nil
    /\ sarifIn[2].Severity = SeverityWarning
    /\ sarifIn[2].Code = Nil /\ sarifIn[2].Range = Nil
    /\ Len(SarifResultList) = 2
    /\ SarifResultList[1].level = "none"
    /\ Len(SarifResultList[1].locations) = 1
    /\ SarifResultList[2].level = "warning"
    /\ SarifResultList[2].locations = <<>>

----------------------------------------------------------------------------
(* Missing sources, aborts, repeated reports. *)

MissingSourceReported ==
    VerboseReported /\ D.Range # Nil /\ R.File \notin DOMAIN Sources

\* C12: when the range names a file that was never registered, a verbose
\* Report emits no snippet line and no underline line, raises no error, and
\* still emits the header, the location line, the help line and the reference
\* line (those that apply) and the trailing blank line.
C12_MissingSourceOmitsSnippet ==
    MissingSourceReported =>
        /\ ~panicked
        /\ partial = <<>>
        /\ \A i \in 1..Len(out) : ~IsSnippetLine(out[i])
        /\ Kinds(out)
              = <<"header", "location">>
                \o (IF D.Help # Nil THEN <<"help">> ELSE <<>>)
                \o (IF D.Url # Nil THEN <<"see">> ELSE <<>>)
                \o <<"blank">>
        /\ Text(out[1])
              = Label(D.Severity)
                \o (IF D.Code # Nil THEN "[" \o D.Code[1] \o "]" ELSE "")
                \o ": " \o D.Message
        /\ Text(out[2]) = PositionText(R, ":", ":", "")
        /\ D.Help # Nil => Text(out[3]) = "help: " \o D.Help[1]
        /\ D.Url # Nil => Text(out[Len(out) - 1]) = "see: " \o D.Url[1]
        /\ out[Len(out)].toks = <<>>

\* another file is registered, the range's file is not; help and url are set
C12_Witness ==
    /\ MissingSourceReported
    /\ DOMAIN Sources = {"example.go"}
    /\ R.File = "missing.go"
    /\ R.Start.Line = 1
    /\ D.Help # Nil /\ D.Url # Nil
    /\ Kinds(out) = <<"header", "location", "help", "see", "blank">>

\* C13: for every range whose lines and columns are >= 1, malformed ranges
\* and ranges beyond the registered text included, a verbose Report completes
\* normally and produces output: no render aborts because of the range.
C13_ReportNeverAborts ==
    (Format = FormatFehler /\ diag # Nil /\ D.Range # Nil) =>
        /\ ~panicked
        /\ partial = <<>>
        /\ Reported => out[Len(out)].kind = "blank"

\* a render aborts only under the first line of a multi-line range that
\* starts beyond the nominal width, when that line is in the registered text
C13_AbortsOnlyBeyondNominalWidth ==
    panicked =>
        /\ SnippetReported
        /\ IsMultiline(R)
        /\ R.Start.Column > NominalWidth
        /\ R.Start.Line <= NumLines(Sources[R.File])

\* C14: in each console style, a Report that follows a Report of the same
\* diagnostic, with no AddSource or WithFormat in between, writes the same
\* bytes; Report changes neither the diagnostic, nor the format, nor the
\* registered sources.
C14_ReportIdempotent ==
    prev # Nil =>
        /\ prev[1].diag = diag
        /\ prev[1].Format = Format
        /\ prev[1].Sources = Sources
        /\ prev[1].out # <<>> =>
              /\ prev[1].out = out
              /\ prev[1].partial = partial
              /\ \A i \in 1..Len(out) : Bytes(prev[1].out[i].toks) = Bytes(out[i].toks)

\* a second Report in a style other than the default
C14_Witness ==
    /\ prev # Nil
    /\ prev[1].out # <<>>
    /\ Format = FormatGCC
    /\ D = ExampleDiagnostic
    /\ Len(out) = 1

\* a second verbose Report that printed a snippet with an underline
C14_WitnessVerbose ==
    /\ prev # Nil
    /\ prev[1].out # <<>>
    /\ SnippetReported
    /\ \E i \in 1..Len(out) : out[i].kind = "underline"

----------------------------------------------------------------------------
(* The builders' claims. *)

\* d with its field `field` set to value
WithField(d, field, value) ==
    CASE field = "Range" -> [d EXCEPT !.Range = value]
      [] field = "Help" -> [d EXCEPT !.Help = value]
      [] field = "Code" -> [d EXCEPT !.Code = value]
      [] field = "Url" -> [d EXCEPT !.Url = value]

\* C15: each With* method returns a copy of the receiver: the result has the
\* given field set and every other field equal to the receiver's, and the
\* receiver itself is unchanged, so a base diagnostic keeps its original
\* field values and derivations of one base do not affect each other.
C15_BuildersReturnCopy ==
    last # Nil =>
        LET c == last[1]
        IN  /\ heap[c.ret] = WithField(c.before, c.field, c.value)
            /\ heap[c.recv] = c.before

\* what the builders do: the result is the receiver, updated in place
C15_BuildersUpdateReceiver ==
    last # Nil =>
        LET c == last[1]
        IN  /\ c.ret = c.recv
            /\ heap[c.recv] = WithField(c.before, c.field, c.value)

====
